---- MODULE Spec2Model ----
(***************************************************************************)
(* A model of the llmcompare service layer: the provider adapters          *)
(* (src/llmprovider/*_provider.py), LLMService (src/llmprovider/service.py)*)
(* and the JSON route /api/get_model_response (src/routes/api.py).         *)
(*                                                                         *)
(* The program keeps no state between requests.  The state of the model is *)
(* the process environment (the credential variables) and the record of    *)
(* the last operation: its input, what the outside world answered, what    *)
(* the operation returned and how many outbound calls it made.             *)
(***************************************************************************)
EXTENDS Integers, Sequences, FiniteSets, TLC

VARIABLES env, op, input, listing, wire, sent, result, http, netCalls, listCalls, constructed,
          offered

vars ==
    <<env, op, input, listing, wire, sent, result, http, netCalls, listCalls, constructed,
      offered>>

----------------------------------------------------------------------------
(* Bounds of the model. *)

\* How far past the truncation length a provider's error body may run.
MaxBodyExcess == 1

\* The largest number of models one live listing of the provider returns.
MaxLive == 1

\* The largest number of entries in the model list of a batch request.
MaxSelected == 2

----------------------------------------------------------------------------
(* Python values and string functions. *)

\* Python's None, and a key that a JSON body or a dict does not carry.
None == "<None>"
Absent == "<absent>"

\* bool(v) for a string or None.
Truthy(v) == v # None /\ v # ""

Min(a, b) == IF a <= b THEN a ELSE b

\* s[:n]
Truncate(s, n) == SubSeq(s, 1, Min(n, Len(s)))

\* s.startswith(p), s.endswith(p), sub in s
StartsWith(s, p) == Len(p) <= Len(s) /\ SubSeq(s, 1, Len(p)) = p

EndsWith(s, p) == Len(p) <= Len(s) /\ SubSeq(s, Len(s) - Len(p) + 1, Len(s)) = p

Contains(s, sub) ==
    \E i \in 1..(Len(s) - Len(sub) + 1) : SubSeq(s, i, i + Len(sub) - 1) = sub

\* s.rstrip(c) for a one-character c
RECURSIVE RStrip(_, _)
RStrip(s, c) ==
    IF Len(s) > 0 /\ SubSeq(s, Len(s), Len(s)) = c
    THEN RStrip(SubSeq(s, 1, Len(s) - 1), c)
    ELSE s

IsSpace(c) == c \in {" ", "\t", "\n", "\r"}

RECURSIVE RStripSpace(_)
RStripSpace(s) ==
    IF Len(s) > 0 /\ IsSpace(SubSeq(s, Len(s), Len(s)))
    THEN RStripSpace(SubSeq(s, 1, Len(s) - 1))
    ELSE s

RECURSIVE LStripSpace(_)
LStripSpace(s) ==
    IF Len(s) > 0 /\ IsSpace(SubSeq(s, 1, 1))
    THEN LStripSpace(SubSeq(s, 2, Len(s)))
    ELSE s

\* s.strip()
Strip(s) == RStripSpace(LStripSpace(s))

Digit(d) == SubSeq("0123456789", d + 1, d + 1)

\* str(n) for a natural number, as an f-string formats a status code
RECURSIVE IntToStr(_)
IntToStr(n) == IF n < 10 THEN Digit(n) ELSE IntToStr(n \div 10) \o Digit(n % 10)

\* c repeated n times
RECURSIVE Rep(_, _)
Rep(c, n) ==
    IF n = 0 THEN ""
    ELSE IF n % 2 = 0 THEN Rep(c, n \div 2) \o Rep(c, n \div 2)
    ELSE c \o Rep(c, n - 1)

\* d1 updated with d2 (dict.update): the entries of d2 win
Update(d1, d2) == d2 @@ d1

EmptyDict == <<>>

----------------------------------------------------------------------------
(* The providers and their credential variables. *)

\* LLMService.providers, in insertion order
ProviderOrder == <<"OpenAI", "Anthropic", "Google", "xAI">>

Providers == {ProviderOrder[i] : i \in 1..Len(ProviderOrder)}

\* provider_name.upper() for the registered names
Upper(p) ==
    CASE p = "OpenAI" -> "OPENAI"
      [] p = "Anthropic" -> "ANTHROPIC"
      [] p = "Google" -> "GOOGLE"
      [] p = "xAI" -> "XAI"

\* the credential variable the service reads for a provider
ApiKeyEnv(p) ==
    IF p = "Google" THEN "GEMINI_API_KEY"
    ELSE IF p = "xAI" THEN "XAI_API_KEY"
    ELSE Upper(p) \o "_API_KEY"

EnvVars == {"OPENAI_API_KEY", "ANTHROPIC_API_KEY", "GEMINI_API_KEY", "XAI_API_KEY"}

\* os.getenv(name): None when the variable is unset
GetEnv(e, name) == IF name \in DOMAIN e THEN e[name] ELSE None

\* The values a credential variable takes: unset, empty, or a key.  The
\* OpenAI adapter singles out the placeholder key "dummy_key".
EnvValues(v) ==
    IF v = "OPENAI_API_KEY" THEN {None, "", "dummy_key", "sk-live"}
    ELSE {None, "", "sk-live"}

----------------------------------------------------------------------------
(* The model tables. *)

Desc(n, ep, key, p) == [name |-> n, endpoint |-> ep, api_key_env |-> key, provider |-> p]

OpenAIChatURL == "https://api.openai.com/v1/chat/completions"

AnthropicURL == "https://api.anthropic.com/v1/messages"

GoogleURL(m) == "https://generativelanguage.googleapis.com/v1beta/models/" \o m \o ":generateContent"

XaiURL == "https://api.x.ai/v1/chat/completions"

\* config.AVAILABLE_MODELS
AVAILABLE_MODELS ==
    ("gpt-4o" :> Desc("GPT-4o", OpenAIChatURL, "OPENAI_API_KEY", "OpenAI")) @@
    ("gpt-4-turbo" :> Desc("GPT-4 Turbo", OpenAIChatURL, "OPENAI_API_KEY", "OpenAI")) @@
    ("gpt-3.5-turbo" :> Desc("GPT-3.5 Turbo", OpenAIChatURL, "OPENAI_API_KEY", "OpenAI")) @@
    ("o3-mini-2025-01-31" :> Desc("o3-mini", OpenAIChatURL, "OPENAI_API_KEY", "OpenAI")) @@
    ("claude-sonnet-4-5-20250929" :> Desc("Claude Sonnet 4.5", AnthropicURL, "ANTHROPIC_API_KEY", "Anthropic")) @@
    ("claude-opus-4-1-20250805" :> Desc("Claude Opus 4.1", AnthropicURL, "ANTHROPIC_API_KEY", "Anthropic")) @@
    ("claude-haiku-4-5-20251001" :> Desc("Claude Haiku 4.5", AnthropicURL, "ANTHROPIC_API_KEY", "Anthropic")) @@
    ("claude-3-7-sonnet-20250219" :> Desc("Claude 3.7 Sonnet", AnthropicURL, "ANTHROPIC_API_KEY", "Anthropic")) @@
    ("gemini-2.5-pro" :> Desc("Gemini 2.5 Pro", GoogleURL("gemini-2.5-pro"), "GEMINI_API_KEY", "Google")) @@
    ("gemini-2.5-flash" :> Desc("Gemini 2.5 Flash", GoogleURL("gemini-2.5-flash"), "GEMINI_API_KEY", "Google")) @@
    ("gemini-2.0-flash-exp" :> Desc("Gemini 2.0 Flash", GoogleURL("gemini-2.0-flash-exp"), "GEMINI_API_KEY", "Google")) @@
    ("grok-4-0709" :> Desc("Grok 4", XaiURL, "XAI_API_KEY", "xAI")) @@
    ("grok-3-beta" :> Desc("Grok 3", XaiURL, "XAI_API_KEY", "xAI")) @@
    ("grok-3-mini" :> Desc("Grok 3 Mini", XaiURL, "XAI_API_KEY", "xAI"))

\* the table AnthropicProvider.get_models returns
AnthropicModels ==
    ("claude-3-5-sonnet-20241022" :> Desc("Claude 3.5 Sonnet", AnthropicURL, "ANTHROPIC_API_KEY", "Anthropic")) @@
    ("claude-3-5-haiku-20241022" :> Desc("Claude 3.5 Haiku", AnthropicURL, "ANTHROPIC_API_KEY", "Anthropic")) @@
    ("claude-3-opus-20240229" :> Desc("Claude 3 Opus", AnthropicURL, "ANTHROPIC_API_KEY", "Anthropic")) @@
    ("claude-3-sonnet-20240229" :> Desc("Claude 3 Sonnet", AnthropicURL, "ANTHROPIC_API_KEY", "Anthropic")) @@
    ("claude-3-haiku-20240307" :> Desc("Claude 3 Haiku", AnthropicURL, "ANTHROPIC_API_KEY", "Anthropic"))

GoogleModelsGoogleKey ==
    ("gemini-2.0-flash-exp" :> Desc("Gemini 2.0 Flash (Experimental)", GoogleURL("gemini-2.0-flash-exp"), "GOOGLE_API_KEY", "Google")) @@
    ("gemini-1.5-pro" :> Desc("Gemini 1.5 Pro", GoogleURL("gemini-1.5-pro"), "GOOGLE_API_KEY", "Google")) @@
    ("gemini-1.5-flash" :> Desc("Gemini 1.5 Flash", GoogleURL("gemini-1.5-flash"), "GOOGLE_API_KEY", "Google")) @@
    ("gemini-1.0-pro" :> Desc("Gemini 1.0 Pro", GoogleURL("gemini-1.0-pro"), "GOOGLE_API_KEY", "Google"))

\* the table GoogleProvider.get_models returns
GoogleModels ==
    ("gemini-2.0-flash-exp" :> Desc("Gemini 2.0 Flash (Experimental)", GoogleURL("gemini-2.0-flash-exp"), "GEMINI_API_KEY", "Google")) @@
    ("gemini-1.5-pro" :> Desc("Gemini 1.5 Pro", GoogleURL("gemini-1.5-pro"), "GEMINI_API_KEY", "Google")) @@
    ("gemini-1.5-flash" :> Desc("Gemini 1.5 Flash", GoogleURL("gemini-1.5-flash"), "GEMINI_API_KEY", "Google")) @@
    ("gemini-1.0-pro" :> Desc("Gemini 1.0 Pro", GoogleURL("gemini-1.0-pro"), "GEMINI_API_KEY", "Google"))

\* the table xAIProvider.get_models returns
XaiModels ==
    ("grok-4" :> Desc("Grok 4", XaiURL, "XAI_API_KEY", "xAI")) @@
    ("grok-3" :> Desc("Grok 3", XaiURL, "XAI_API_KEY", "xAI")) @@
    ("grok-3-mini" :> Desc("Grok 3 Mini", XaiURL, "XAI_API_KEY", "xAI"))

\* the last resort of OpenAIProvider.get_models
OpenAILastResort ==
    ("gpt-3.5-turbo" :> Desc("gpt-3.5-turbo", "chat/completions", "OPENAI_API_KEY", "OpenAI")) @@
    ("gpt-4" :> Desc("gpt-4", "chat/completions", "OPENAI_API_KEY", "OpenAI"))

\* the models OpenAIProvider.get_models tags with the responses endpoint
ResponsesModels == {"gpt-4o", "o3-mini"}

\* {k: v for k, v in d.items() if v.get('provider') == p}
FilterProvider(d, p) ==
    LET keep == {k \in DOMAIN d : d[k].provider = p}
    IN  [k \in keep |-> d[k]]

----------------------------------------------------------------------------
(* Exceptions. *)

\* d.get(k, default)
Get(d, k, default) == IF k \in DOMAIN d THEN d[k] ELSE default

\* An exception: its class, str(e), and for a requests HTTPError the
\* response it carries.
Exc(c, m) == [cls |-> c, msg |-> m, status_code |-> 0, text |-> ""]

HTTPError(code, body) ==
    [cls |-> "HTTPError", msg |-> IntToStr(code) \o " Error", status_code |-> code, text |-> body]

\* The classes an exception is an instance of.
Mro(c) ==
    CASE c = "HTTPError" -> {"HTTPError", "RequestException", "Exception"}
      [] c = "Timeout" -> {"Timeout", "RequestException", "Exception"}
      [] c = "RateLimitError" ->
            {"RateLimitError", "APIStatusError", "APIError", "OpenAIError", "Exception"}
      [] c = "APIStatusError" -> {"APIStatusError", "APIError", "OpenAIError", "Exception"}
      [] c = "APITimeoutError" ->
            {"APITimeoutError", "APIConnectionError", "APIError", "OpenAIError", "Exception"}
      [] c = "APIConnectionError" ->
            {"APIConnectionError", "APIError", "OpenAIError", "Exception"}
      [] OTHER -> {c, "Exception"}

IsInstance(e, classes) == Mro(e.cls) \cap classes # {}

\* except (OpenAIError, APIError, APIConnectionError, RateLimitError, APITimeoutError)
OpenAIErrors ==
    {"OpenAIError", "APIError", "APIConnectionError", "RateLimitError", "APITimeoutError"}

Return(c, u) == [kind |-> "return", content |-> c, usage |-> u]

Raise(e) == [kind |-> "raise", exc |-> e]

----------------------------------------------------------------------------
(* What the provider's endpoint answers to the one outbound call of         *)
(* call_api: a reply in the provider's wire shape, an HTTP error status, no *)
(* answer within the timeout, or an exception raised beneath the adapter.   *)

NoWire == [t |-> "none"]

ReplyWire(b) == [t |-> "reply", body |-> b]

HttpWire(code, body) == [t |-> "http", code |-> code, text |-> body]

TimeoutWire == [t |-> "timeout"]

FaultWire(e) == [t |-> "fault", exc |-> e]

\* What the provider's SDK raises for an HTTP error status or a timeout.  The
\* adapters of this package call the vendors' SDK clients; none of them uses
\* requests, so none of these is a requests exception.
SdkError(p, w) ==
    LET status == "Error code: " \o IntToStr(w.code) \o " - " \o w.text
    IN  CASE p = "OpenAI" /\ w.t = "http" ->
                Exc(IF w.code = 429 THEN "RateLimitError" ELSE "APIStatusError", status)
          [] p = "OpenAI" /\ w.t = "timeout" -> Exc("APITimeoutError", "Request timed out.")
          [] p = "Anthropic" /\ w.t = "http" -> Exc("anthropic.APIStatusError", status)
          [] p = "Anthropic" /\ w.t = "timeout" ->
                Exc("anthropic.APITimeoutError", "Request timed out.")
          [] p = "Google" /\ w.t = "http" ->
                Exc("google.api_core.exceptions.GoogleAPICallError",
                    IntToStr(w.code) \o " " \o w.text)
          [] p = "Google" /\ w.t = "timeout" ->
                Exc("google.api_core.exceptions.DeadlineExceeded", "504 Deadline Exceeded")
          [] p = "xAI" /\ w.t = "http" -> Exc("grpc.RpcError", status)
          [] p = "xAI" /\ w.t = "timeout" -> Exc("grpc.RpcError", "Deadline Exceeded")

\* The outcome of the SDK call on every answer that is not a reply.
Failure(p, w) == IF w.t = "fault" THEN Raise(w.exc) ELSE Raise(SdkError(p, w))

----------------------------------------------------------------------------
(* The adapters: call_api. *)

\* ''.join(texts)
RECURSIVE Join(_)
Join(texts) == IF texts = <<>> THEN "" ELSE Head(texts) \o Join(Tail(texts))

\* the texts of the parts that pass the filter, in order
RECURSIVE TextsOf(_, _)
TextsOf(parts, kinds) ==
    IF parts = <<>> THEN <<>>
    ELSE (IF Get(Head(parts), "type", None) \in kinds
          THEN <<Get(Head(parts), "text", "")>> ELSE <<>>)
         \o TextsOf(Tail(parts), kinds)

TextKinds == {"output_text", "text"}

IsResponsesEndpointNoStrip(endpoint) == EndsWith(endpoint, "responses")

\* endpoint.rstrip('/').endswith('responses')
IsResponsesEndpoint(endpoint) == EndsWith(RStrip(endpoint, "/"), "responses")

OpenAIResponsesNoFallback(body) ==
    LET output == Get(body, "output", <<>>)
        content_parts == Get(output[1], "content", <<>>)
    IN  IF output = <<>>
        THEN Raise(Exc("ValueError", "No output returned from OpenAI responses API"))
        ELSE IF content_parts = <<>>
        THEN Raise(Exc("ValueError", "OpenAI responses output missing content"))
        ELSE Return(Join(TextsOf(content_parts, TextKinds)), Get(body, "usage", EmptyDict))

OpenAIResponses(body) ==
    LET output == Get(body, "output", <<>>)
        content_parts == Get(output[1], "content", <<>>)
        text == Join(TextsOf(content_parts, TextKinds))
    IN  IF output = <<>>
        THEN Raise(Exc("ValueError", "No output returned from OpenAI responses API"))
        ELSE IF content_parts = <<>>
        THEN Raise(Exc("ValueError", "OpenAI responses output missing content"))
        ELSE Return(IF text = "" THEN Get(content_parts[1], "text", "") ELSE text,
                    Get(body, "usage", EmptyDict))

OpenAIChat(body) ==
    IF body.choices = <<>>
    THEN Raise(Exc("IndexError", "list index out of range"))
    ELSE Return(body.choices[1].message.content, Get(body, "usage", EmptyDict))

OpenAICallApi(endpoint, w) ==
    IF w.t # "reply" THEN Failure("OpenAI", w)
    ELSE IF IsResponsesEndpoint(endpoint) THEN OpenAIResponses(w.body)
    ELSE OpenAIChat(w.body)

\* the texts of the blocks that have a text attribute, in order
RECURSIVE BlockTexts(_)
BlockTexts(blocks) ==
    IF blocks = <<>> THEN <<>>
    ELSE (IF "text" \in DOMAIN Head(blocks) THEN <<Head(blocks).text>> ELSE <<>>)
         \o BlockTexts(Tail(blocks))

AnthropicUsageNoTotal(message) ==
    LET has == "usage" \in DOMAIN message
    IN  [prompt_tokens |-> IF has THEN message.usage.input_tokens ELSE 0,
         completion_tokens |-> IF has THEN message.usage.output_tokens ELSE 0,
         total_tokens |-> IF has THEN message.usage.input_tokens ELSE 0]

AnthropicUsage(message) ==
    LET has == "usage" \in DOMAIN message
    IN  [prompt_tokens |-> IF has THEN message.usage.input_tokens ELSE 0,
         completion_tokens |-> IF has THEN message.usage.output_tokens ELSE 0,
         total_tokens |->
            IF has THEN message.usage.input_tokens + message.usage.output_tokens ELSE 0]

AnthropicCallApi(w) ==
    IF w.t # "reply" THEN Failure("Anthropic", w)
    ELSE Return(Join(BlockTexts(w.body.content)), AnthropicUsage(w.body))

\* response.text raises ValueError when the reply holds no text part
GoogleCallApi(w) ==
    IF w.t # "reply" THEN Failure("Google", w)
    ELSE IF "text" \in DOMAIN w.body THEN Return(w.body.text, EmptyDict)
    ELSE Raise(Exc("ValueError", "Invalid operation: response.text requires a valid Part"))

XaiCallApi(w) ==
    IF w.t # "reply" THEN Failure("xAI", w)
    ELSE Return(w.body.content, EmptyDict)

\* provider.call_api(model_id, prompt, endpoint, system_prompt) of the
\* provider class registered under the name p
CallApi(p, endpoint, w) ==
    CASE p = "OpenAI" -> OpenAICallApi(endpoint, w)
      [] p = "Anthropic" -> AnthropicCallApi(w)
      [] p = "Google" -> GoogleCallApi(w)
      [] p = "xAI" -> XaiCallApi(w)

----------------------------------------------------------------------------
(* The adapters: the request call_api hands to the provider's client. *)

\* no request was sent
NoRequest == [api |-> "none"]

\* messages = [] ; if system_prompt: append the system message ; append the
\* user message
ChatMessages(prompt, system_prompt) ==
    (IF Truthy(system_prompt) THEN <<[role |-> "system", content |-> system_prompt]>> ELSE <<>>)
        \o <<[role |-> "user", content |-> prompt]>>

\* input_messages of the responses branch
InputMessages(prompt, system_prompt) ==
    (IF Truthy(system_prompt)
     THEN <<[role |-> "system",
             content |-> <<[type |-> "input_text", text |-> system_prompt]>>]>>
     ELSE <<>>)
        \o <<[role |-> "user", content |-> <<[type |-> "input_text", text |-> prompt]>>]>>

\* self.client.responses.create(...)
OpenAIResponsesRequest(model_id, prompt, system_prompt) ==
    [api |-> "responses.create", model |-> model_id,
     input |-> InputMessages(prompt, system_prompt),
     temperature |-> "0.7", max_output_tokens |-> 1000]

\* self.client.chat.completions.create(...)
OpenAIChatRequest(model_id, prompt, system_prompt) ==
    [api |-> "chat.completions.create", model |-> model_id,
     messages |-> ChatMessages(prompt, system_prompt),
     temperature |-> "0.7", max_tokens |-> 1000]

OpenAIRequest(model_id, prompt, endpoint, system_prompt) ==
    IF IsResponsesEndpoint(endpoint)
    THEN OpenAIResponsesRequest(model_id, prompt, system_prompt)
    ELSE OpenAIChatRequest(model_id, prompt, system_prompt)

\* client.messages.create(...)
AnthropicRequest(model_id, prompt, system_prompt) ==
    [api |-> "messages.create", model |-> model_id, max_tokens |-> 1024,
     system |-> IF Truthy(system_prompt) THEN system_prompt ELSE "",
     messages |-> <<[role |-> "user", content |-> prompt]>>]

GoogleFullPromptOneNewline(prompt, system_prompt) ==
    IF Truthy(system_prompt) THEN system_prompt \o "\n" \o prompt ELSE prompt

\* full_prompt: the system prompt, a blank line and the prompt
GoogleFullPrompt(prompt, system_prompt) ==
    IF Truthy(system_prompt) THEN system_prompt \o "\n\n" \o prompt ELSE prompt

\* genai.GenerativeModel(model_id).generate_content(full_prompt)
GoogleRequest(model_id, prompt, system_prompt) ==
    [api |-> "generate_content", model |-> model_id,
     text |-> GoogleFullPrompt(prompt, system_prompt)]

\* client.chat.create(model, messages) ; chat.append(user(prompt)) ;
\* chat.sample(): neither a temperature nor a token limit is passed
XaiRequest(model_id, prompt, system_prompt) ==
    [api |-> "chat.sample", model |-> model_id,
     messages |-> ChatMessages(prompt, system_prompt)]

\* the request of provider.call_api(model_id, prompt, endpoint, system_prompt)
Request(p, model_id, prompt, endpoint, system_prompt) ==
    CASE p = "OpenAI" -> OpenAIRequest(model_id, prompt, endpoint, system_prompt)
      [] p = "Anthropic" -> AnthropicRequest(model_id, prompt, system_prompt)
      [] p = "Google" -> GoogleRequest(model_id, prompt, system_prompt)
      [] p = "xAI" -> XaiRequest(model_id, prompt, system_prompt)

OutboundCallsRetrying(p, endpoint, w) == IF w.t = "reply" THEN 1 ELSE 2

\* The calls call_api makes on the provider's client: each adapter has one
\* call statement, outside any loop and outside any try block.
OutboundCalls(p, endpoint, w) == 1

----------------------------------------------------------------------------
(* The adapters: get_models. *)

Returns(v) == [kind |-> "return", value |-> v]

\* What the provider answers to the live "list models" call: the ids it
\* lists, an OpenAI SDK error, or any other exception.
NoListing == [t |-> "none"]

\* model.id.startswith("gpt") or model.id.startswith("o3-")
IsChatFamily(id) == StartsWith(id, "gpt") \/ StartsWith(id, "o3-")

LiveDescriptorAllChat(id) == Desc(id, "chat/completions", "OPENAI_API_KEY", "OpenAI")

LiveDescriptor(id) ==
    Desc(id, IF id \in ResponsesModels THEN "responses" ELSE "chat/completions",
         "OPENAI_API_KEY", "OpenAI")

OpenAIFallbackOrEmpty(available_models) == FilterProvider(available_models, "OpenAI")

OpenAIFallback(available_models) ==
    IF available_models # EmptyDict /\ FilterProvider(available_models, "OpenAI") # EmptyDict
    THEN FilterProvider(available_models, "OpenAI")
    ELSE OpenAILastResort

\* whether get_models attempts the live listing
AttemptsDiscovery(api_key) == api_key # "dummy_key"

OpenAIGetModels(api_key, available_models, l) ==
    IF AttemptsDiscovery(api_key) /\ l.t = "ok"
    THEN Returns([id \in {i \in l.ids : IsChatFamily(i)} |-> LiveDescriptor(id)])
    ELSE IF AttemptsDiscovery(api_key) /\ ~IsInstance(l.exc, OpenAIErrors)
    THEN Raise(l.exc)
    ELSE Returns(OpenAIFallback(available_models))

\* provider.get_models() of the provider class registered under the name p
GetModels(p, api_key, available_models, l) ==
    CASE p = "OpenAI" -> OpenAIGetModels(api_key, available_models, l)
      [] p = "Anthropic" -> Returns(AnthropicModels)
      [] p = "Google" -> Returns(GoogleModels)
      [] p = "xAI" -> Returns(XaiModels)

----------------------------------------------------------------------------
(* LLMService. *)

\* get_provider: the provider instance, built with the key alone
GetProvider(provider_name, api_key) ==
    IF provider_name \in Providers
    THEN Returns([cls |-> provider_name, api_key |-> api_key, available_models |-> EmptyDict])
    ELSE Raise(Exc("ValueError", "Unknown provider: " \o provider_name))

\* whether the provider's credential variable holds a key
Configured(e, p) == Truthy(GetEnv(e, ApiKeyEnv(p)))

\* One turn of the loop of get_available_models: the models the provider
\* adds, an empty mapping when the listing raises.
ProviderModelsNoCatch(e, p, l) ==
    IF ~Configured(e, p) THEN Returns(EmptyDict)
    ELSE GetModels(p, GetEnv(e, ApiKeyEnv(p)),
                   GetProvider(p, GetEnv(e, ApiKeyEnv(p))).value.available_models, l)

ProviderModels(e, p, l) ==
    IF ~Configured(e, p) THEN Returns(EmptyDict)
    ELSE LET prov == GetProvider(p, GetEnv(e, ApiKeyEnv(p)))
             models == IF prov.kind = "raise" THEN prov
                       ELSE GetModels(p, prov.value.api_key, prov.value.available_models, l)
         IN  IF models.kind = "raise" THEN Returns(EmptyDict) ELSE models

RECURSIVE CollectModels(_, _, _, _)
CollectModels(e, l, i, acc) ==
    IF i > Len(ProviderOrder) THEN Returns(acc)
    ELSE LET models == ProviderModels(e, ProviderOrder[i], l)
         IN  IF models.kind = "raise" THEN models
             ELSE CollectModels(e, l, i + 1, Update(acc, models.value))

\* get_available_models
GetAvailableModels(e, l) == CollectModels(e, l, 1, EmptyDict)

\* the live listing calls get_available_models makes
ListingCalls(e) ==
    IF Configured(e, "OpenAI") /\ AttemptsDiscovery(GetEnv(e, ApiKeyEnv("OpenAI"))) THEN 1 ELSE 0

\* datetime.now().isoformat()
Now == "<timestamp>"

\* s[:200] of the provider's error body
TruncLen == 200

ErrorResponseNoType(model_info, error_msg, error_type) ==
    [model_name |-> model_info.name, provider |-> model_info.provider,
     response |-> error_msg, timestamp |-> Now, status |-> "error"]

\* _error_response
ErrorResponse(model_info, error_msg, error_type) ==
    [model_name |-> model_info.name, provider |-> model_info.provider,
     response |-> error_msg, timestamp |-> Now, status |-> "error",
     error_type |-> error_type]

MissingKeyResponse(model_info) ==
    [model_name |-> model_info.name, provider |-> model_info.provider,
     response |-> "API key not set. Please set " \o model_info.api_key_env
                    \o " in your .env file.",
     timestamp |-> Now, status |-> "error", error_type |-> "missing_api_key"]

SuccessResponse(model_info, r) ==
    [model_name |-> model_info.name, provider |-> model_info.provider,
     response |-> r.content, timestamp |-> Now, status |-> "success",
     usage |-> r.usage]

\* the except clauses of call_model, in order
HandlersNoCatchAll(model_info, x) ==
    IF IsInstance(x, {"HTTPError"})
    THEN Returns(ErrorResponse(model_info,
            "API Error: " \o IntToStr(x.status_code) \o " - " \o Truncate(x.text, TruncLen),
            "api_error"))
    ELSE IF IsInstance(x, {"Timeout"})
    THEN Returns(ErrorResponse(model_info, "Request timed out. Please try again.", "timeout"))
    ELSE IF IsInstance(x, OpenAIErrors)
    THEN Returns(ErrorResponse(model_info, "OpenAI API Error: " \o x.msg, "openai_api_error"))
    ELSE Raise(x)

HandlersCatchAllFirst(model_info, x) ==
    IF IsInstance(x, {"HTTPError"})
    THEN Returns(ErrorResponse(model_info,
            "API Error: " \o IntToStr(x.status_code) \o " - " \o Truncate(x.text, TruncLen),
            "api_error"))
    ELSE IF Contains(model_info.provider, "Google")
    THEN Returns(ErrorResponse(model_info, "Google API Error: " \o x.msg, "google_api_error"))
    ELSE IF IsInstance(x, {"Timeout"})
    THEN Returns(ErrorResponse(model_info, "Request timed out. Please try again.", "timeout"))
    ELSE IF IsInstance(x, OpenAIErrors)
    THEN Returns(ErrorResponse(model_info, "OpenAI API Error: " \o x.msg, "openai_api_error"))
    ELSE Returns(ErrorResponse(model_info, "Unexpected error: " \o x.msg, "unknown_error"))

Handlers(model_info, x) ==
    IF IsInstance(x, {"HTTPError"})
    THEN Returns(ErrorResponse(model_info,
            "API Error: " \o IntToStr(x.status_code) \o " - " \o Truncate(x.text, TruncLen),
            "api_error"))
    ELSE IF IsInstance(x, {"Timeout"})
    THEN Returns(ErrorResponse(model_info, "Request timed out. Please try again.", "timeout"))
    ELSE IF IsInstance(x, OpenAIErrors)
    THEN Returns(ErrorResponse(model_info, "OpenAI API Error: " \o x.msg, "openai_api_error"))
    ELSE IF IsInstance(x, {"Exception"})
    THEN (IF Contains(model_info.provider, "Google")
          THEN Returns(ErrorResponse(model_info, "Google API Error: " \o x.msg,
                                     "google_api_error"))
          ELSE Returns(ErrorResponse(model_info, "Unexpected error: " \o x.msg,
                                     "unknown_error")))
    ELSE Raise(x)

\* call_model: what it returns or raises (out), the providers it built and
\* the outbound model calls it made
CallModelNoKeyCheck(e, model_info, w) ==
    LET api_key == GetEnv(e, model_info.api_key_env)
        prov == GetProvider(model_info.provider, api_key)
        r == IF prov.kind = "raise" THEN prov
             ELSE IF w = NoWire THEN Raise(Exc("AuthenticationError", "No API key provided"))
             ELSE CallApi(model_info.provider, model_info.endpoint, w)
    IN  [out |-> IF r.kind = "raise" THEN Handlers(model_info, r.exc)
                 ELSE Returns(SuccessResponse(model_info, r)),
         built |-> IF prov.kind = "raise" THEN 0 ELSE 1,
         net |-> IF prov.kind = "raise" THEN 0 ELSE 1]

CallModel(e, model_info, w) ==
    LET api_key == GetEnv(e, model_info.api_key_env)
        prov == GetProvider(model_info.provider, api_key)
        r == IF prov.kind = "raise" THEN prov
             ELSE CallApi(model_info.provider, model_info.endpoint, w)
    IN  IF ~Truthy(api_key)
        THEN [out |-> Returns(MissingKeyResponse(model_info)), built |-> 0, net |-> 0]
        ELSE [out |-> IF r.kind = "raise" THEN Handlers(model_info, r.exc)
                      ELSE Returns(SuccessResponse(model_info, r)),
              built |-> IF prov.kind = "raise" THEN 0 ELSE 1,
              net |-> IF prov.kind = "raise" THEN 0
                      ELSE OutboundCalls(model_info.provider, model_info.endpoint, w)]

\* the request call_model has the adapter send: none without a key or
\* without a registered provider
CallModelSent(e, model_id, prompt, model_info, system_prompt) ==
    IF ~Truthy(GetEnv(e, model_info.api_key_env))
            \/ GetProvider(model_info.provider, GetEnv(e, model_info.api_key_env)).kind = "raise"
    THEN NoRequest
    ELSE Request(model_info.provider, model_id, prompt, model_info.endpoint, system_prompt)

----------------------------------------------------------------------------
(* The route POST /api/get_model_response. *)

\* a JSON object: the keys whose value is Absent are not in it
Field(k, v) == IF v = Absent THEN EmptyDict ELSE (k :> v)

Body(prompt, system_prompt, model_id) ==
    Field("prompt", prompt) @@ Field("system_prompt", system_prompt)
        @@ Field("model_id", model_id)

\* any([os.getenv(...), ...]) over the four credential variables
ApiKeysConfigured(e) ==
    \E v \in {"OPENAI_API_KEY", "ANTHROPIC_API_KEY", "GEMINI_API_KEY", "XAI_API_KEY"} :
        Truthy(GetEnv(e, v))

Response(code, payload, calls, built, net, lists) ==
    [code |-> code, payload |-> payload, calls |-> calls, built |-> built, net |-> net,
     lists |-> lists]

\* an exception that leaves the view: Flask answers 500
Unhandled(x, calls, built, net, lists) ==
    Response(500, [error |-> "Internal Server Error", exception |-> x.cls],
             calls, built, net, lists)

StripNone == Exc("AttributeError", "'NoneType' object has no attribute 'strip'")

\* the view after the request fields are read: prompt and system_prompt are
\* the stripped strings
ValidateErrorAs502(e, prompt, system_prompt, model_id, l, w) ==
    LET all_models == GetAvailableModels(e, l)
    IN  IF ~Truthy(prompt)
        THEN Response(400, [error |-> "Prompt is required"], 0, 0, 0, 0)
        ELSE IF ~Truthy(model_id)
        THEN Response(400, [error |-> "A model must be selected"], 0, 0, 0, 0)
        ELSE IF ~ApiKeysConfigured(e)
        THEN Response(503,
                [error |-> "No API keys configured. Please add API keys to use this service."],
                0, 0, 0, 0)
        ELSE IF all_models.kind = "raise"
        THEN Unhandled(all_models.exc, 0, 0, 0, ListingCalls(e))
        ELSE IF model_id \notin DOMAIN all_models.value
        THEN Response(400, [error |-> "Invalid model selected."], 0, 0, 0, ListingCalls(e))
        ELSE LET call == CallModel(e, all_models.value[model_id], w)
             IN  IF call.out.kind = "raise"
                 THEN Unhandled(call.out.exc, 1, call.built, call.net, ListingCalls(e))
                 ELSE Response(IF call.out.value.status = "error" THEN 502 ELSE 200,
                               call.out.value, 1, call.built, call.net, ListingCalls(e))

ValidateCallBeforeLookup(e, prompt, system_prompt, model_id, l, w) ==
    LET all_models == GetAvailableModels(e, l)
    IN  IF ~Truthy(prompt)
        THEN Response(400, [error |-> "Prompt is required"], 0, 0, 0, 0)
        ELSE IF ~Truthy(model_id)
        THEN Response(400, [error |-> "A model must be selected"], 0, 0, 0, 0)
        ELSE IF ~ApiKeysConfigured(e)
        THEN Response(503,
                [error |-> "No API keys configured. Please add API keys to use this service."],
                0, 0, 0, 0)
        ELSE IF all_models.kind = "raise"
        THEN Unhandled(all_models.exc, 0, 0, 0, ListingCalls(e))
        ELSE IF model_id \notin DOMAIN all_models.value
        THEN Response(400, [error |-> "Invalid model selected."], 1, 1, 1, ListingCalls(e))
        ELSE LET call == CallModel(e, all_models.value[model_id], w)
             IN  IF call.out.kind = "raise"
                 THEN Unhandled(call.out.exc, 1, call.built, call.net, ListingCalls(e))
                 ELSE Response(200, call.out.value, 1, call.built, call.net, ListingCalls(e))

Validate(e, prompt, system_prompt, model_id, l, w) ==
    LET all_models == GetAvailableModels(e, l)
    IN  IF ~Truthy(prompt)
        THEN Response(400, [error |-> "Prompt is required"], 0, 0, 0, 0)
        ELSE IF ~Truthy(model_id)
        THEN Response(400, [error |-> "A model must be selected"], 0, 0, 0, 0)
        ELSE IF ~ApiKeysConfigured(e)
        THEN Response(503,
                [error |-> "No API keys configured. Please add API keys to use this service."],
                0, 0, 0, 0)
        ELSE IF all_models.kind = "raise"
        THEN Unhandled(all_models.exc, 0, 0, 0, ListingCalls(e))
        ELSE IF model_id \notin DOMAIN all_models.value
        THEN Response(400, [error |-> "Invalid model selected."], 0, 0, 0, ListingCalls(e))
        ELSE LET call == CallModel(e, all_models.value[model_id], w)
             IN  IF call.out.kind = "raise"
                 THEN Unhandled(call.out.exc, 1, call.built, call.net, ListingCalls(e))
                 ELSE Response(200, call.out.value, 1, call.built, call.net, ListingCalls(e))

\* get_model_response
GetModelResponse(e, data, l, w) ==
    IF Get(data, "system_prompt", "") = None \/ Get(data, "prompt", "") = None
    THEN Unhandled(StripNone, 0, 0, 0, 0)
    ELSE Validate(e, Strip(Get(data, "prompt", "")), Strip(Get(data, "system_prompt", "")),
                  Get(data, "model_id", None), l, w)

\* whether the view gets as far as resolving the catalog
RouteResolves(e, data) ==
    /\ Get(data, "system_prompt", "") # None
    /\ Get(data, "prompt", "") # None
    /\ Truthy(Strip(Get(data, "prompt", "")))
    /\ Truthy(Get(data, "model_id", None))
    /\ ApiKeysConfigured(e)

\* whether the view gets as far as call_model, and the descriptor it passes
RouteCalls(e, data, l) ==
    /\ RouteResolves(e, data)
    /\ GetAvailableModels(e, l).kind = "return"
    /\ data.model_id \in DOMAIN GetAvailableModels(e, l).value

RouteDescriptor(e, data, l) == GetAvailableModels(e, l).value[data.model_id]

----------------------------------------------------------------------------
(* LLMService.get_available_providers. *)

\* the elements of a sequence that satisfy a test, in order
RECURSIVE ConfiguredOf(_, _, _)
ConfiguredOf(e, names, i) ==
    IF i > Len(names) THEN <<>>
    ELSE (IF Truthy(GetEnv(e, ApiKeyEnv(names[i]))) THEN <<names[i]>> ELSE <<>>)
         \o ConfiguredOf(e, names, i + 1)

GetAvailableProvidersButFirst(e) ==
    ConfiguredOf(e, SubSeq(ProviderOrder, 2, Len(ProviderOrder)), 1)

\* get_available_providers: the registered names whose variable holds a key,
\* in registration order; no provider is built and nothing is listed
GetAvailableProviders(e) == ConfiguredOf(e, ProviderOrder, 1)

----------------------------------------------------------------------------
(* The single-file application src/app.py: its own table, its adapters on  *)
(* requests, its LLMService and the batch route POST /api/compare.          *)

AppOpenAIURL == "https://api.openai.com/v1/chat/completions"

AppGoogleURL ==
    "https://generativelanguage.googleapis.com/v1beta/models/gemini-pro:generateContent"

\* AVAILABLE_MODELS of app.py
AppModels ==
    ("gpt-3.5-turbo" :> Desc("GPT-3.5 Turbo", AppOpenAIURL, "OPENAI_API_KEY", "OpenAI")) @@
    ("gpt-4" :> Desc("GPT-4", AppOpenAIURL, "OPENAI_API_KEY", "OpenAI")) @@
    ("claude-3-opus" :> Desc("Claude 3 Opus", AnthropicURL, "ANTHROPIC_API_KEY", "Anthropic")) @@
    ("claude-3-sonnet" :> Desc("Claude 3 Sonnet", AnthropicURL, "ANTHROPIC_API_KEY", "Anthropic")) @@
    ("gemini-pro" :> Desc("Gemini Pro", AppGoogleURL, "GOOGLE_API_KEY", "Google"))

\* LLMService.providers of app.py
AppProviders == {"OpenAI", "Anthropic", "Google"}

\* requests.post(..., timeout=30) ; response.raise_for_status()
AppPost(w) ==
    CASE w.t = "http" -> Raise(HTTPError(w.code, w.text))
      [] w.t = "timeout" -> Raise(Exc("Timeout", "Read timed out. (read timeout=30)"))
      [] w.t = "fault" -> Raise(w.exc)
      [] w.t = "reply" -> Returns(w.body)

\* call_api of the three adapters of app.py, on the JSON of the reply
AppCallApi(p, w) ==
    LET posted == AppPost(w)
        body == posted.value
    IN  IF posted.kind = "raise" THEN posted
        ELSE CASE p = "OpenAI" ->
                    IF body.choices = <<>>
                    THEN Raise(Exc("IndexError", "list index out of range"))
                    ELSE Return(body.choices[1].message.content, Get(body, "usage", EmptyDict))
               [] p = "Anthropic" ->
                    IF body.content = <<>>
                    THEN Raise(Exc("IndexError", "list index out of range"))
                    ELSE IF "text" \notin DOMAIN body.content[1]
                    THEN Raise(Exc("KeyError", "'text'"))
                    ELSE Return(body.content[1].text, Get(body, "usage", EmptyDict))
               [] p = "Google" ->
                    IF "text" \notin DOMAIN body
                    THEN Raise(Exc("KeyError", "'candidates'"))
                    ELSE Return(body.text, EmptyDict)

\* the except clauses of call_model of app.py, in order
AppHandlers(model_info, x) ==
    IF IsInstance(x, {"HTTPError"})
    THEN ErrorResponse(model_info,
            "API Error: " \o IntToStr(x.status_code) \o " - " \o Truncate(x.text, TruncLen),
            "api_error")
    ELSE IF IsInstance(x, {"Timeout"})
    THEN ErrorResponse(model_info, "Request timed out. Please try again.", "timeout")
    ELSE ErrorResponse(model_info, "Unexpected error: " \o x.msg, "unknown_error")

\* call_model of app.py: the envelope and the outbound calls made
AppCallModel(e, model_info, w) ==
    LET api_key == GetEnv(e, model_info.api_key_env)
        r == IF model_info.provider \notin AppProviders
             THEN Raise(Exc("ValueError", "Unknown provider: " \o model_info.provider))
             ELSE AppCallApi(model_info.provider, w)
    IN  IF ~Truthy(api_key)
        THEN [out |-> MissingKeyResponse(model_info), net |-> 0]
        ELSE [out |-> IF r.kind = "raise" THEN AppHandlers(model_info, r.exc)
                      ELSE SuccessResponse(model_info, r),
              net |-> IF model_info.provider \in AppProviders THEN 1 ELSE 0]

\* the loop of compare_models over selected_models: the responses by model
\* id, the ids call_model was called for and the ids an outbound call was
\* made for, both in order
\* a loop that gives up after the first entry
CompareLoopFirstOnly(e, selected, ws, i, acc) ==
    IF i > Len(selected) \/ selected[i] \notin DOMAIN AppModels THEN acc
    ELSE LET call == AppCallModel(e, AppModels[selected[i]], ws[i])
         IN  [responses |-> (selected[i] :> call.out) @@ acc.responses,
              called |-> Append(acc.called, selected[i]),
              outbound |-> IF call.net = 0 THEN acc.outbound
                           ELSE Append(acc.outbound, selected[i])]

RECURSIVE CompareLoop(_, _, _, _, _)
CompareLoop(e, selected, ws, i, acc) ==
    IF i > Len(selected) THEN acc
    ELSE IF selected[i] \notin DOMAIN AppModels
    THEN CompareLoop(e, selected, ws, i + 1, acc)
    ELSE LET call == AppCallModel(e, AppModels[selected[i]], ws[i])
         IN  CompareLoop(e, selected, ws, i + 1,
                [responses |-> (selected[i] :> call.out) @@ acc.responses,
                 called |-> Append(acc.called, selected[i]),
                 outbound |-> IF call.net = 0 THEN acc.outbound
                              ELSE Append(acc.outbound, selected[i])])

\* any([os.getenv('OPENAI_API_KEY'), os.getenv('ANTHROPIC_API_KEY'),
\*      os.getenv('GOOGLE_API_KEY')])
AppApiKeysConfigured(e) ==
    \E v \in {"OPENAI_API_KEY", "ANTHROPIC_API_KEY", "GOOGLE_API_KEY"} : Truthy(GetEnv(e, v))

BatchResponse(code, payload, called, outbound) ==
    [code |-> code, payload |-> payload, called |-> called, outbound |-> outbound]

\* compare_models; ws[i] is what the endpoint answers to the call made for
\* selected_models[i]
CompareModels(e, data, ws) ==
    LET selected == Get(data, "models", <<>>)
        done == CompareLoop(e, selected, ws, 1,
                    [responses |-> EmptyDict, called |-> <<>>, outbound |-> <<>>])
    IN  IF Get(data, "system_prompt", "") = None \/ Get(data, "prompt", "") = None
        THEN BatchResponse(500, [error |-> "Internal Server Error"], <<>>, <<>>)
        ELSE IF ~Truthy(Strip(Get(data, "prompt", "")))
        THEN BatchResponse(400, [error |-> "Prompt is required"], <<>>, <<>>)
        ELSE IF selected = <<>>
        THEN BatchResponse(400, [error |-> "At least one model must be selected"], <<>>, <<>>)
        ELSE IF ~AppApiKeysConfigured(e)
        THEN BatchResponse(503,
                [error |-> "No API keys configured. Please add API keys to use this service."],
                <<>>, <<>>)
        ELSE BatchResponse(200, done.responses, done.called, done.outbound)

----------------------------------------------------------------------------
(* The single-module service src/llmprovider.py: the OpenAI, Anthropic and *)
(* Google adapters on the vendors' SDK clients, the xAI adapter on          *)
(* requests, and its own LLMService.call_model.                             *)

\* call_api of the adapters of llmprovider.py
ModuleCallApi(p, endpoint, w) ==
    IF p # "xAI" THEN CallApi(p, endpoint, w)
    ELSE LET posted == AppPost(w)
         IN  IF posted.kind = "raise" THEN posted
             ELSE IF posted.value.choices = <<>>
             THEN Raise(Exc("IndexError", "list index out of range"))
             ELSE Return(posted.value.choices[1].message.content,
                         Get(posted.value, "usage", EmptyDict))

\* what a Python function returns when it ends without a return statement
NoEnvelope == [none |-> TRUE]

\* The except clauses of call_model of llmprovider.py, in order: HTTPError,
\* then Exception, whose body returns for a Google descriptor only; the
\* Timeout clause and the second Exception clause come after it and are
\* never reached.
ModuleHandlers(model_info, x) ==
    IF IsInstance(x, {"HTTPError"})
    THEN Returns(ErrorResponse(model_info,
            "API Error: " \o IntToStr(x.status_code) \o " - " \o Truncate(x.text, TruncLen),
            "api_error"))
    ELSE IF IsInstance(x, {"Exception"})
    THEN (IF Contains(model_info.provider, "Google")
          THEN Returns(ErrorResponse(model_info, "Google API Error: " \o x.msg,
                                     "google_api_error"))
          ELSE Returns(NoEnvelope))
    ELSE IF IsInstance(x, {"Timeout"})
    THEN Returns(ErrorResponse(model_info, "Request timed out. Please try again.", "timeout"))
    ELSE Raise(x)

\* call_model of llmprovider.py
ModuleCallModel(e, model_info, w) ==
    LET api_key == GetEnv(e, model_info.api_key_env)
        r == IF model_info.provider \notin Providers
             THEN Raise(Exc("ValueError", "Unknown provider: " \o model_info.provider))
             ELSE ModuleCallApi(model_info.provider, model_info.endpoint, w)
    IN  IF ~Truthy(api_key) THEN Returns(MissingKeyResponse(model_info))
        ELSE IF r.kind = "raise" THEN ModuleHandlers(model_info, r.exc)
        ELSE Returns(SuccessResponse(model_info, r))

----------------------------------------------------------------------------
(* The route GET /api/models. *)

\* get_models: jsonify(llm_service.get_available_models())
ApiGetModels(e, l) ==
    LET models == GetAvailableModels(e, l)
    IN  IF models.kind = "raise" THEN Unhandled(models.exc, 0, 0, 0, ListingCalls(e))
        ELSE Response(200, models.value, 0, 0, 0, ListingCalls(e))

----------------------------------------------------------------------------
(* Construction of a provider outside the service, as test_providers.py    *)
(* does: Provider(api_key) or Provider(api_key, available_models).          *)

\* the second argument of the constructor: not passed, None, or a table
NotPassed == [kind |-> "absent"]

NoneTable == [kind |-> "none"]

Table(t) == [kind |-> "dict", table |-> t]

\* LLMProvider.__init__: self.available_models = available_models or {}
OrEmpty(available_models) ==
    IF available_models.kind = "dict" THEN available_models.table ELSE EmptyDict

\* Only OpenAIProvider.__init__ takes available_models.
NewProvider(p, api_key, available_models) ==
    IF p # "OpenAI" /\ available_models # NotPassed
    THEN Raise(Exc("TypeError", "__init__() takes 2 positional arguments but 3 were given"))
    ELSE Returns([cls |-> p, api_key |-> api_key,
                  available_models |-> OrEmpty(available_models)])

\* Provider(api_key, available_models).get_models()
ProviderGetModels(p, api_key, available_models, l) ==
    LET prov == NewProvider(p, api_key, available_models)
    IN  IF prov.kind = "raise" THEN prov
        ELSE GetModels(p, prov.value.api_key, prov.value.available_models, l)

----------------------------------------------------------------------------
(* The inputs and the answers of the outside world the model draws from. *)

\* the ids a live listing may hold: two of them chat models the adapter
\* tags for the responses endpoint, one a plain chat model, one no chat model
LiveUniverse == {"gpt-4o", "o3-mini", "gpt-4", "dall-e-3"}

ListingOk == {[t |-> "ok", ids |-> S] : S \in {T \in SUBSET LiveUniverse : Cardinality(T) <= MaxLive}}

ListingSdkError == [t |-> "error", exc |-> Exc("APIConnectionError", "Connection error.")]

ListingOtherError == [t |-> "error", exc |-> Exc("RuntimeError", "unexpected")]

Listings == ListingOk \cup {ListingSdkError, ListingOtherError}

\* the listing answers get_available_models can meet in an environment
ListingsFor(e) == IF ListingCalls(e) = 1 THEN Listings ELSE {NoListing}

Usage == [prompt_tokens |-> 3, completion_tokens |-> 4, total_tokens |-> 7]

Part(type, text) == [type |-> type, text |-> text]

\* replies in the responses shape
ResponsesReplies ==
    { [output |-> <<>>],
      [output |-> <<[type |-> "reasoning"]>>],
      [output |-> <<[type |-> "message", content |-> <<>>]>>],
      [output |-> <<[type |-> "message",
                     content |-> <<Part("output_text", "Hello, "), Part("output_text", "world")>>]>>,
       usage |-> Usage],
      [output |-> <<[type |-> "message",
                     content |-> <<Part("reasoning_text", "hmm"), Part("text", "Hi")>>]>>],
      [output |-> <<[type |-> "message", content |-> <<Part("summary_text", "sum")>>]>>],
      [output |-> <<[type |-> "message",
                     content |-> <<[type |-> "refusal", refusal |-> "no"]>>]>>] }

Choice(content) == [message |-> [role |-> "assistant", content |-> content]]

\* replies in the legacy chat shape
ChatReplies ==
    { [choices |-> <<>>],
      [choices |-> <<Choice("Paris")>>, usage |-> Usage],
      [choices |-> <<Choice("Paris"), Choice("Lyon")>>],
      [choices |-> <<Choice(None)>>],
      [choices |-> <<Choice("")>>] }

\* Anthropic messages
AnthropicReplies ==
    { [content |-> <<>>, usage |-> [input_tokens |-> 3, output_tokens |-> 0]],
      [content |-> <<[type |-> "text", text |-> "Paris"]>>,
       usage |-> [input_tokens |-> 3, output_tokens |-> 4]],
      [content |-> <<[type |-> "text", text |-> "Hel"], [type |-> "text", text |-> "lo"]>>],
      [content |-> <<[type |-> "tool_use", name |-> "search"]>>,
       usage |-> [input_tokens |-> 3, output_tokens |-> 9]] }

\* Gemini responses: the text of the reply, or a reply without a text part
GoogleReplies == { [text |-> "Paris"], [text |-> ""], [finish_reason |-> "SAFETY"] }

\* xAI chat responses
XaiReplies ==
    { [content |-> "Paris"], [content |-> ""], [content |-> "Paris", usage |-> Usage] }

RepliesFor(model_info) ==
    CASE model_info.provider = "OpenAI" ->
            IF IsResponsesEndpoint(model_info.endpoint) THEN ResponsesReplies ELSE ChatReplies
      [] model_info.provider = "Anthropic" -> AnthropicReplies
      [] model_info.provider = "Google" -> GoogleReplies
      [] model_info.provider = "xAI" -> XaiReplies

\* error bodies: empty, short, and from the truncation length on
ErrorBodies == {"", "rate limited"} \cup {Rep("x", TruncLen + k) : k \in 0..MaxBodyExcess}

HttpWires ==
    {HttpWire(429, "rate limited"), HttpWire(429, Rep("x", TruncLen + MaxBodyExcess)),
     HttpWire(500, "overloaded")}

FaultWires ==
    {FaultWire(HTTPError(c, b)) : c \in {429}, b \in ErrorBodies}
        \cup {FaultWire(HTTPError(503, "unavailable")),
              FaultWire(Exc("Timeout", "read timed out")),
              FaultWire(Exc("APIConnectionError", "Connection error.")),
              FaultWire(Exc("RuntimeError", "boom"))}

\* the answers call_model can meet for a descriptor in an environment
WiresFor(e, model_info) ==
    IF ~Truthy(GetEnv(e, model_info.api_key_env)) \/ model_info.provider \notin Providers
    THEN {NoWire}
    ELSE {ReplyWire(b) : b \in RepliesFor(model_info)}
            \cup HttpWires \cup {TimeoutWire} \cup FaultWires

\* the descriptors call_model is called with directly: one per adapter and
\* wire shape, and one of a provider that is not registered
CallDescriptors ==
    { LiveDescriptor("gpt-4o"), OpenAILastResort["gpt-4"], AVAILABLE_MODELS["gpt-4-turbo"],
      Desc("o3-mini", "https://api.openai.com/v1/responses/", "OPENAI_API_KEY", "OpenAI"),
      AnthropicModels["claude-3-opus-20240229"], GoogleModels["gemini-1.5-pro"],
      XaiModels["grok-3"], Desc("Mistral Large", "https://api.mistral.ai/v1/chat", "XAI_API_KEY", "Mistral") }

SystemPrompts == {None, "", "Be brief."}

\* the model id call_model is called with for a descriptor: the id a table
\* lists it under, and its name when no table lists it
CallModelId(model_info) ==
    LET tables == <<OpenAILastResort, AVAILABLE_MODELS, AnthropicModels, GoogleModels, XaiModels>>
        ids == UNION {{m \in DOMAIN tables[i] : tables[i][m] = model_info} :
                        i \in 1..Len(tables)}
    IN  IF ids # {} THEN CHOOSE m \in ids : TRUE ELSE model_info.name

\* the JSON bodies of a request
BodyPrompts == {Absent, None, "", "  ", "hi"}

BodySystemPrompts == {Absent, None, "", "  ", " Be brief. "}

BodyModelIds ==
    {Absent, None, "", "no-such-model", "gpt-4o", "gpt-4", "claude-3-opus-20240229",
     "gemini-1.5-pro", "grok-3"}

Bodies == {Body(p, s, m) : p \in BodyPrompts, s \in BodySystemPrompts, m \in BodyModelIds}

\* the system prompt the view passes on: system_prompt if system_prompt else None
OrNone(s) == IF Truthy(s) THEN s ELSE None

\* the request the view has the adapter send
RouteSent(e, data, l) ==
    IF ~RouteCalls(e, data, l) THEN NoRequest
    ELSE CallModelSent(e, data.model_id, Strip(Get(data, "prompt", "")),
                       RouteDescriptor(e, data, l),
                       OrNone(Strip(Get(data, "system_prompt", ""))))

\* the model lists of a batch request: every list of at most MaxSelected
\* ids, of two models of the table and one that is not in it
CompareIds == {"gpt-4", "claude-3-opus", "no-such-model"}

SelectedLists == UNION {[1..n -> CompareIds] : n \in 0..MaxSelected}

CompareBodies ==
    {("models" :> sel) @@ Field("prompt", p) @@ Field("system_prompt", sp) :
        sel \in SelectedLists, p \in {"", "hi"}, sp \in {Absent, " Be brief. "}}

\* a reply each adapter of app.py can read
AppReply(p) ==
    CASE p = "OpenAI" -> [choices |-> <<Choice("Paris")>>, usage |-> Usage]
      [] p = "Anthropic" -> [content |-> <<[type |-> "text", text |-> "Paris"]>>]
      [] p = "Google" -> [text |-> "Paris"]

\* whether compare_models reaches its loop
CompareReaches(e, data) ==
    /\ Truthy(Strip(Get(data, "prompt", "")))
    /\ data.models # <<>>
    /\ AppApiKeysConfigured(e)

\* the answers the call made for one entry of the list can meet
CompareWiresAt(e, data, id) ==
    IF ~CompareReaches(e, data) \/ id \notin DOMAIN AppModels
            \/ ~Truthy(GetEnv(e, AppModels[id].api_key_env))
    THEN {NoWire}
    ELSE {ReplyWire(AppReply(AppModels[id].provider)), TimeoutWire,
          HttpWire(429, "rate limited")}

CompareWires(e, data) ==
    {ws \in [1..Len(data.models) ->
                {NoWire, TimeoutWire, HttpWire(429, "rate limited")}
                    \cup {ReplyWire(AppReply(p)) : p \in AppProviders}] :
        \A i \in 1..Len(data.models) : ws[i] \in CompareWiresAt(e, data, data.models[i])}

\* the descriptors call_model of llmprovider.py is called with, and the
\* answers it can meet: those of the package for the SDK adapters, the chat
\* shape for the xAI adapter on requests
ModuleDescriptors ==
    {AVAILABLE_MODELS["gpt-4-turbo"], AVAILABLE_MODELS["gemini-2.5-pro"],
     AVAILABLE_MODELS["grok-3-mini"]}

ModuleWiresFor(e, model_info) ==
    IF ~Truthy(GetEnv(e, model_info.api_key_env)) THEN {NoWire}
    ELSE IF model_info.provider = "xAI"
    THEN {ReplyWire(b) : b \in ChatReplies} \cup HttpWires \cup {TimeoutWire} \cup FaultWires
    ELSE WiresFor(e, model_info)

\* the tables a provider is constructed with outside the service
ProviderTables ==
    {NotPassed, NoneTable, Table(AVAILABLE_MODELS), Table(EmptyDict),
     Table(FilterProvider(AVAILABLE_MODELS, "Anthropic"))}

ProviderKeys == {"dummy_key", "sk-live"}

\* the listing answers Provider.get_models can meet
ListingsOf(p, api_key) ==
    IF p = "OpenAI" /\ AttemptsDiscovery(api_key) THEN Listings ELSE {NoListing}

----------------------------------------------------------------------------
(* The state machine. *)

NoInput == [none |-> TRUE]

NoResult == [kind |-> "none"]

\* the catalog a client last got from GET /api/models: none yet
NoCatalog == [kind |-> "none"]

\* The process starts with its environment loaded; nothing has been asked.
Init ==
    /\ env \in {e \in [EnvVars -> {None, "", "dummy_key", "sk-live"}] :
                    \A v \in EnvVars : e[v] \in EnvValues(v)}
    /\ op = "start"
    /\ input = NoInput
    /\ listing = NoListing
    /\ wire = NoWire
    /\ sent = NoRequest
    /\ result = NoResult
    /\ http = 0
    /\ netCalls = 0
    /\ listCalls = 0
    /\ constructed = 0
    /\ offered = NoCatalog

\* The process is idle: no request is being handled.
Idle == op = "start"

\* llm_service.call_model(model_id, prompt, model_info, system_prompt)
DoCallModel ==
    /\ Idle
    /\ \E model_info \in CallDescriptors, system_prompt \in SystemPrompts :
      \E w \in WiresFor(env, model_info) :
        LET call == CallModel(env, model_info, w)
        IN  /\ op' = "call_model"
            /\ input' = [model_id |-> CallModelId(model_info), model_info |-> model_info,
                         prompt |-> "hi", system_prompt |-> system_prompt]
            /\ listing' = NoListing
            /\ wire' = w
            /\ sent' = CallModelSent(env, CallModelId(model_info), "hi", model_info,
                                     system_prompt)
            /\ result' = call.out
            /\ http' = 0
            /\ netCalls' = call.net
            /\ listCalls' = 0
            /\ constructed' = call.built
            /\ UNCHANGED <<env, offered>>

\* llm_service.get_available_models()
DoGetAvailableModels ==
    /\ Idle
    /\ \E l \in ListingsFor(env) :
        /\ op' = "get_available_models"
        /\ input' = NoInput
        /\ listing' = l
        /\ wire' = NoWire
        /\ sent' = NoRequest
        /\ result' = GetAvailableModels(env, l)
        /\ http' = 0
        /\ netCalls' = 0
        /\ listCalls' = ListingCalls(env)
        /\ constructed' = Cardinality({p \in Providers : Configured(env, p)})
        /\ UNCHANGED <<env, offered>>

\* POST /api/get_model_response
DoGetModelResponse ==
    /\ Idle
    /\ \E data \in Bodies :
      \E l \in (IF RouteResolves(env, data) THEN ListingsFor(env) ELSE {NoListing}) :
        \E w \in (IF RouteCalls(env, data, l)
                  THEN WiresFor(env, RouteDescriptor(env, data, l)) ELSE {NoWire}) :
          LET r == GetModelResponse(env, data, l, w)
          IN  /\ op' = "get_model_response"
              /\ input' = [data |-> data]
              /\ listing' = l
              /\ wire' = w
              /\ sent' = RouteSent(env, data, l)
              /\ result' = [kind |-> "response", value |-> r.payload, calls |-> r.calls]
              /\ http' = r.code
              /\ netCalls' = r.net
              /\ listCalls' = r.lists
              /\ constructed' = r.built
              /\ UNCHANGED <<env, offered>>

\* Provider(api_key[, available_models]).get_models()
DoProviderGetModels ==
    /\ Idle
    /\ \E p \in Providers, api_key \in ProviderKeys, t \in ProviderTables :
      \E l \in ListingsOf(p, api_key) :
        /\ op' = "get_models"
        /\ input' = [provider |-> p, api_key |-> api_key, available_models |-> t]
        /\ listing' = l
        /\ wire' = NoWire
        /\ sent' = NoRequest
        /\ result' = ProviderGetModels(p, api_key, t, l)
        /\ http' = 0
        /\ netCalls' = 0
        /\ listCalls' = IF l = NoListing THEN 0 ELSE 1
        /\ constructed' = IF NewProvider(p, api_key, t).kind = "return" THEN 1 ELSE 0
        /\ UNCHANGED <<env, offered>>

\* llm_service.get_available_providers()
DoGetAvailableProviders ==
    /\ Idle
    /\ op' = "get_available_providers"
    /\ input' = NoInput
    /\ listing' = NoListing
    /\ wire' = NoWire
    /\ sent' = NoRequest
    /\ result' = Returns(GetAvailableProviders(env))
    /\ http' = 0
    /\ netCalls' = 0
    /\ listCalls' = 0
    /\ constructed' = 0
    /\ UNCHANGED <<env, offered>>

\* POST /api/compare of app.py
DoCompareModels ==
    /\ Idle
    /\ \E data \in CompareBodies :
      \E ws \in CompareWires(env, data) :
        LET r == CompareModels(env, data, ws)
        IN  /\ op' = "compare_models"
            /\ input' = [data |-> data]
            /\ listing' = NoListing
            /\ wire' = [t |-> "batch", ws |-> ws]
            /\ sent' = IF r.outbound = <<>> THEN NoRequest ELSE [api |-> "requests.post"]
            /\ result' = [kind |-> "response", value |-> r.payload, called |-> r.called,
                          outbound |-> r.outbound]
            /\ http' = r.code
            /\ netCalls' = Len(r.outbound)
            /\ listCalls' = 0
            /\ constructed' = Len(r.outbound)
            /\ UNCHANGED <<env, offered>>

\* LLMService().call_model(...) of llmprovider.py
DoModuleCallModel ==
    /\ Idle
    /\ \E model_info \in ModuleDescriptors :
      \E w \in ModuleWiresFor(env, model_info) :
        /\ op' = "module_call_model"
        /\ input' = [model_id |-> CallModelId(model_info), model_info |-> model_info,
                     prompt |-> "hi", system_prompt |-> None]
        /\ listing' = NoListing
        /\ wire' = w
        /\ sent' = IF w = NoWire THEN NoRequest ELSE [api |-> "call_api"]
        /\ result' = ModuleCallModel(env, model_info, w)
        /\ http' = 0
        /\ netCalls' = IF w = NoWire THEN 0 ELSE 1
        /\ listCalls' = 0
        /\ constructed' = IF w = NoWire THEN 0 ELSE 1
        /\ UNCHANGED <<env, offered>>

\* The request is over: nothing it computed outlives it, and the process
\* waits for the next one.
Finish ==
    /\ ~Idle
    /\ op' = "start"
    /\ input' = NoInput
    /\ listing' = NoListing
    /\ wire' = NoWire
    /\ sent' = NoRequest
    /\ result' = NoResult
    /\ http' = 0
    /\ netCalls' = 0
    /\ listCalls' = 0
    /\ constructed' = 0
    /\ UNCHANGED <<env, offered>>

Next ==
    \/ Finish
    \/ DoCallModel
    \/ DoGetAvailableModels
    \/ DoGetModelResponse
    \/ DoProviderGetModels
    \/ DoGetAvailableProviders
    \/ DoCompareModels
    \/ DoModuleCallModel

Spec == Init /\ [][Next]_vars

----------------------------------------------------------------------------
(* A session of one client, as test_new_endpoint.py runs it: GET            *)
(* /api/models, then POST /api/get_model_response with an id of the catalog *)
(* it got.  Each request resolves the catalog anew.                         *)

\* GET /api/models
SessionGetModels ==
    /\ Idle
    /\ \E l \in ListingsFor(env) :
        LET r == ApiGetModels(env, l)
        IN  /\ op' = "api_models"
            /\ input' = NoInput
            /\ listing' = l
            /\ wire' = NoWire
            /\ sent' = NoRequest
            /\ result' = [kind |-> "response", value |-> r.payload, calls |-> r.calls]
            /\ http' = r.code
            /\ netCalls' = r.net
            /\ listCalls' = r.lists
            /\ constructed' = Cardinality({p \in Providers : Configured(env, p)})
            /\ offered' = IF r.code = 200 THEN [kind |-> "catalog", value |-> r.payload]
                           ELSE NoCatalog
            /\ UNCHANGED env

\* the following POST /api/get_model_response, with a model id of the
\* catalog the client holds and a non-empty prompt
SessionPostModelResponse ==
    /\ op = "api_models"
    /\ offered # NoCatalog
    /\ \E model_id \in DOMAIN offered.value :
      LET data == Body("hi", Absent, model_id)
      IN  \E l \in ListingsFor(env) :
            \E w \in (IF RouteCalls(env, data, l)
                      THEN WiresFor(env, RouteDescriptor(env, data, l)) ELSE {NoWire}) :
              LET r == GetModelResponse(env, data, l, w)
              IN  /\ op' = "get_model_response"
                  /\ input' = [data |-> data]
                  /\ listing' = l
                  /\ wire' = w
                  /\ sent' = RouteSent(env, data, l)
                  /\ result' = [kind |-> "response", value |-> r.payload, calls |-> r.calls]
                  /\ http' = r.code
                  /\ netCalls' = r.net
                  /\ listCalls' = r.lists
                  /\ constructed' = r.built
                  /\ UNCHANGED <<env, offered>>

SessionNext == SessionGetModels \/ SessionPostModelResponse

SessionSpec == Init /\ [][SessionNext]_vars

----------------------------------------------------------------------------
(* Properties. *)

\* the envelope call_model returned in this state, when it returned one
HasEnvelope ==
    \/ op = "call_model" /\ result.kind = "return"
    \/ op = "get_model_response" /\ http = 200

Envelope == result.value

\* C1: call_model never raises: whatever the descriptor and whatever the
\* adapter does (a normal return, an exception while the provider is built
\* or inside call_api), it returns an envelope whose status is 'success' or
\* 'error'.
C1_CallModelNeverRaises ==
    op = "call_model" =>
        /\ result.kind = "return"
        /\ result.value.status \in {"success", "error"}

\* an exception raised inside call_api was turned into an error envelope
C1_Witness ==
    /\ op = "call_model"
    /\ wire.t = "fault"
    /\ wire.exc.cls = "RuntimeError"
    /\ result.kind = "return"
    /\ result.value.status = "error"

\* C2: with the credential variable of the descriptor unset or empty,
\* call_model returns status 'error', error_type 'missing_api_key' and a
\* message naming the variable; it builds no provider and makes no outbound
\* call.
C2_MissingKeyNoCall ==
    (op = "call_model" /\ ~Truthy(GetEnv(env, input.model_info.api_key_env))) =>
        /\ result.kind = "return"
        /\ result.value.status = "error"
        /\ result.value.error_type = "missing_api_key"
        /\ Contains(result.value.response, input.model_info.api_key_env)
        /\ constructed = 0
        /\ netCalls = 0
        /\ wire = NoWire

\* call_model was called for an Anthropic model with ANTHROPIC_API_KEY empty
C2_Witness ==
    /\ op = "call_model"
    /\ input.model_info.api_key_env = "ANTHROPIC_API_KEY"
    /\ env["ANTHROPIC_API_KEY"] = ""
    /\ result.value.error_type = "missing_api_key"
    /\ netCalls = 0

\* the status the ordered checks of the claim give a request
ClaimedStatus(e, data, l) ==
    IF ~Truthy(Strip(Get(data, "prompt", ""))) THEN 400
    ELSE IF ~Truthy(Get(data, "model_id", None)) THEN 400
    ELSE IF \A p \in Providers : ~Configured(e, p) THEN 503
    ELSE IF data.model_id \notin DOMAIN GetAvailableModels(e, l).value THEN 400
    ELSE 200

\* C3: the view answers with the first check that applies: 400 for a prompt
\* that is empty after trimming, 400 for a missing model_id, 503 without any
\* credential, 400 for a model_id outside the catalog, else 200 with the
\* envelope of call_model.  Stated for the bodies whose prompt is a string
\* or absent, where "empty after trimming" leaves no doubt.
C3_ChecksInOrder ==
    (op = "get_model_response" /\ Get(input.data, "prompt", "") # None) =>
        /\ http = ClaimedStatus(env, input.data, listing)
        /\ http = 200 => "status" \in DOMAIN result.value

\* C4: once the request has passed validation, a failure of the model call
\* (no credential, an HTTP error status, a timeout, an SDK error, a reply the
\* adapter cannot read, any other exception) gives HTTP 200 with an envelope
\* of status 'error', never a 5xx.
ModelCallFailed(e, d, w) ==
    \/ ~Truthy(GetEnv(e, d.api_key_env))
    \/ GetProvider(d.provider, GetEnv(e, d.api_key_env)).kind = "raise"
    \/ CallApi(d.provider, d.endpoint, w).kind = "raise"

C4_CallFailureIs200 ==
    (/\ op = "get_model_response"
     /\ RouteCalls(env, input.data, listing)
     /\ ModelCallFailed(env, RouteDescriptor(env, input.data, listing), wire)) =>
        /\ http = 200
        /\ result.value.status = "error"

\* a validated request whose model call met a timeout was answered 200
C4_Witness ==
    /\ op = "get_model_response"
    /\ wire.t = "timeout"
    /\ http = 200
    /\ result.value.status = "error"

\* the ids that belong to a provider: those its listing may return, those
\* config.py lists under it, those its adapter has built in
BuiltIn(p) ==
    CASE p = "OpenAI" -> OpenAILastResort
      [] p = "Anthropic" -> AnthropicModels
      [] p = "Google" -> GoogleModels
      [] p = "xAI" -> XaiModels

ModelIdsOf(p) ==
    (IF p = "OpenAI" THEN {i \in LiveUniverse : IsChatFamily(i)} ELSE {})
        \cup DOMAIN FilterProvider(AVAILABLE_MODELS, p) \cup DOMAIN BuiltIn(p)

\* the chat models a successful live listing returned
LiveReturned(p, l) ==
    IF p = "OpenAI" /\ l.t = "ok" THEN {i \in l.ids : IsChatFamily(i)} ELSE {}

\* C5: get_available_models() contains a model id M of provider P if and
\* only if P's credential is configured and (live discovery returned M or
\* the static configuration lists M under P).
C5_CatalogIffConfiguredAndListed ==
    (op = "get_available_models" /\ result.kind = "return") =>
        \A p \in Providers : \A m \in ModelIdsOf(p) :
            (m \in DOMAIN result.value) <=>
                /\ Configured(env, p)
                /\ \/ m \in LiveReturned(p, listing)
                   \/ m \in DOMAIN FilterProvider(AVAILABLE_MODELS, p)

\* whether a listing was not attempted, or failed with an error of the SDK
NoLiveList(l) == l = NoListing \/ (l.t = "error" /\ IsInstance(l.exc, OpenAIErrors))

EntriesOf(models, p) == {m \in DOMAIN models : models[m].provider = p}

\* C7: get_available_models() never raises; a provider without a credential
\* contributes no model, a provider whose listing fails contributes nothing
\* beyond its fallback, and the models of every other configured provider
\* are in the result all the same.
C7_CatalogNeverRaises ==
    op = "get_available_models" =>
        /\ result.kind = "return"
        /\ \A p \in Providers : ~Configured(env, p) => EntriesOf(result.value, p) = {}
        /\ (listing # NoListing /\ listing.t = "error") =>
                EntriesOf(result.value, "OpenAI") \subseteq DOMAIN OpenAILastResort
        /\ \A p \in Providers \ {"OpenAI"} :
                Configured(env, p) =>
                    \A m \in DOMAIN BuiltIn(p) :
                        m \in DOMAIN result.value /\ result.value[m] = BuiltIn(p)[m]

\* the OpenAI listing raised, Google has no credential, and the Anthropic
\* models are in the catalog
C7_Witness ==
    /\ op = "get_available_models"
    /\ listing = ListingOtherError
    /\ Configured(env, "Anthropic")
    /\ ~Configured(env, "Google")
    /\ result.kind = "return"
    /\ "claude-3-opus-20240229" \in DOMAIN result.value
    /\ EntriesOf(result.value, "OpenAI") = {}

\* C8: every envelope of call_model is a success without an error_type or
\* an error with an error_type, and never both or neither.
C8_StatusXorErrorType ==
    HasEnvelope =>
        /\ Envelope.status \in {"success", "error"}
        /\ (Envelope.status = "success") <=> ("error_type" \notin DOMAIN Envelope)
        /\ (Envelope.status = "error") =>
                ("error_type" \in DOMAIN Envelope /\ Truthy(Envelope.error_type))

\* an adapter failure gave an error envelope that carries its error_type
C8_Witness ==
    /\ op = "call_model"
    /\ result.kind = "return"
    /\ result.value.status = "error"
    /\ "error_type" \in DOMAIN result.value
    /\ result.value.error_type = "unknown_error"

\* C9: every envelope of call_model carries a non-empty response text, the
\* model's text on success and a diagnostic on error.
C9_ResponsePopulated ==
    HasEnvelope => Truthy(Envelope.response)

\* C10: for every provider, an HTTP 429 answer of the endpoint gives status
\* 'error' with error_type 'api_error' and a response text that holds the
\* status code and the body cut to at most 200 characters.
C10_Http429IsApiError ==
    (op = "call_model" /\ wire.t = "http" /\ wire.code = 429) =>
        /\ result.kind = "return"
        /\ result.value.status = "error"
        /\ result.value.error_type = "api_error"
        /\ Contains(result.value.response, IntToStr(wire.code))
        /\ Contains(result.value.response, Truncate(wire.text, TruncLen))
        /\ Len(wire.text) > TruncLen => ~Contains(result.value.response, wire.text)

\* a state in which call_model was called, directly or by the view, and the
\* descriptor it was called with
CallMade ==
    \/ op = "call_model"
    \/ op = "get_model_response" /\ RouteCalls(env, input.data, listing)

CalledDescriptor ==
    IF op = "call_model" THEN input.model_info
    ELSE RouteDescriptor(env, input.data, listing)

\* C11: for every provider, an outbound call that gets no answer within the
\* timeout gives status 'error' with error_type 'timeout', after one call.
C11_TimeoutIsTimeoutKind ==
    (CallMade /\ wire.t = "timeout") =>
        /\ result.value.status = "error"
        /\ result.value.error_type = "timeout"
        /\ netCalls = 1

RangeOf(seq) == {seq[i] : i \in 1..Len(seq)}

\* C12: get_available_providers() returns exactly the registered provider
\* names whose credential variable (OPENAI_API_KEY, ANTHROPIC_API_KEY,
\* GEMINI_API_KEY, XAI_API_KEY) is set to a key, each once, whatever a
\* listing of the provider's models would give, and it builds no provider
\* and makes no listing call.
C12_ProvidersWithCredential ==
    op = "get_available_providers" =>
        /\ result.kind = "return"
        /\ ("OpenAI" \in RangeOf(result.value)) <=> Truthy(env["OPENAI_API_KEY"])
        /\ ("Anthropic" \in RangeOf(result.value)) <=> Truthy(env["ANTHROPIC_API_KEY"])
        /\ ("Google" \in RangeOf(result.value)) <=> Truthy(env["GEMINI_API_KEY"])
        /\ ("xAI" \in RangeOf(result.value)) <=> Truthy(env["XAI_API_KEY"])
        /\ RangeOf(result.value) \subseteq {"OpenAI", "Anthropic", "Google", "xAI"}
        /\ Len(result.value) = Cardinality(RangeOf(result.value))
        /\ listCalls = 0
        /\ netCalls = 0
        /\ constructed = 0

\* OpenAI is among the providers returned although its listing, were it
\* asked for, would resolve no model; Google, with an empty variable, is not
C12_Witness ==
    /\ op = "get_available_providers"
    /\ env["OPENAI_API_KEY"] = "sk-live"
    /\ env["GEMINI_API_KEY"] = ""
    /\ "OpenAI" \in RangeOf(result.value)
    /\ "Google" \notin RangeOf(result.value)
    /\ EntriesOf(GetAvailableModels(env, ListingOtherError).value, "OpenAI") = {}
    /\ listCalls = 0

\* the texts of the first n parts whose type is a textual kind, concatenated
RECURSIVE TextualConcat(_, _)
TextualConcat(parts, n) ==
    IF n = 0 THEN ""
    ELSE TextualConcat(parts, n - 1)
            \o (IF parts[n].type \in {"output_text", "text"} THEN parts[n].text ELSE "")

\* call_model was called for the responses shape and the reply carries a
\* non-empty list of parts in its first output item
ResponsesReplyWithParts ==
    /\ CallMade
    /\ CalledDescriptor.provider = "OpenAI"
    /\ CalledDescriptor.endpoint = "responses"
    /\ wire.t = "reply"
    /\ wire.body.output # <<>>
    /\ "content" \in DOMAIN wire.body.output[1]
    /\ wire.body.output[1].content # <<>>

\* C13 as claimed: in the responses shape the content is the concatenation,
\* in order, of the text of exactly the parts of output[0].content whose type
\* is 'output_text' or 'text', for every non-empty list of parts.
C13_ContentIsTextualConcat ==
    ResponsesReplyWithParts =>
        /\ result.value.status = "success"
        /\ result.value.response =
             TextualConcat(wire.body.output[1].content, Len(wire.body.output[1].content))

\* C13 as amended: the content is that concatenation when it is not empty;
\* when no textual part contributes any text, the content is the 'text' of
\* the first part whatever its type, and '' when the first part has none.
C13_ContentIsConcatOrFirstPart ==
    ResponsesReplyWithParts =>
        LET parts == wire.body.output[1].content
            joined == TextualConcat(parts, Len(parts))
        IN  /\ result.value.status = "success"
            /\ result.value.response =
                 IF joined # "" THEN joined
                 ELSE IF "text" \in DOMAIN parts[1] THEN parts[1].text ELSE ""

\* a reply whose only part is not of a textual kind gave that part's text
C13_Witness ==
    /\ ResponsesReplyWithParts
    /\ wire.body.output[1].content = <<Part("summary_text", "sum")>>
    /\ result.value.status = "success"
    /\ result.value.response = "sum"

\* C14: in the responses shape, a reply whose output list is empty or whose
\* first output item carries no content parts makes the adapter fail, and
\* call_model reports status 'error' with an error kind of its own for a
\* malformed response, none of the kinds of the other failures.
C14_MalformedReplyKind ==
    (/\ CallMade
     /\ CalledDescriptor.provider = "OpenAI"
     /\ CalledDescriptor.endpoint = "responses"
     /\ wire.t = "reply"
     /\ (wire.body.output = <<>> \/ Get(wire.body.output[1], "content", <<>>) = <<>>)) =>
        /\ result.value.status = "error"
        /\ result.value.error_type \notin
                {"missing_api_key", "api_error", "timeout", "openai_api_error",
                 "google_api_error", "unknown_error"}

\* C15: on a successful live discovery, OpenAIProvider.get_models returns
\* exactly the listed models whose id begins with 'gpt' or 'o3-', each with
\* provider 'OpenAI' and credential variable OPENAI_API_KEY, tagged with the
\* responses endpoint if and only if its id is 'gpt-4o' or 'o3-mini' and with
\* the legacy chat endpoint otherwise.
C15_LiveDiscoveryFilter ==
    (op = "get_models" /\ input.provider = "OpenAI" /\ listing.t = "ok") =>
        /\ result.kind = "return"
        /\ DOMAIN result.value =
              {i \in listing.ids : SubSeq(i, 1, 3) = "gpt" \/ SubSeq(i, 1, 3) = "o3-"}
        /\ \A i \in DOMAIN result.value :
              /\ result.value[i].provider = "OpenAI"
              /\ result.value[i].api_key_env = "OPENAI_API_KEY"
              /\ result.value[i].name = i
              /\ (result.value[i].endpoint = "responses") <=> (i \in {"gpt-4o", "o3-mini"})
              /\ (result.value[i].endpoint = "chat/completions") <=>
                    (i \notin {"gpt-4o", "o3-mini"})

\* a live listing of o3-mini gave one model, tagged for the responses endpoint
C15_Witness ==
    /\ op = "get_models"
    /\ input.provider = "OpenAI"
    /\ listing.t = "ok"
    /\ "o3-mini" \in listing.ids
    /\ result.kind = "return"
    /\ result.value["o3-mini"].endpoint = "responses"

Count(seq, x) == Cardinality({i \in 1..Len(seq) : seq[i] = x})

\* C17: handling one batch compare request makes at most one outbound call
\* (and so at most one call of call_model that reaches the provider) for
\* each distinct model id of the request, whatever list of models it carries.
C17_OneCallPerModel ==
    op = "compare_models" =>
        \A m \in RangeOf(input.data.models) : Count(result.outbound, m) <= 1

\* C18: the xAI adapter sends what the OpenAI legacy chat branch sends for
\* the same model id, prompt and system prompt (the same message list,
\* temperature 0.7, max_tokens 1000) and returns for a reply the same content
\* and the reply's usage mapping unchanged.
C18_XaiAsOpenAIChat ==
    (op = "call_model" /\ input.model_info.provider = "xAI" /\ sent # NoRequest) =>
        LET chat == OpenAIChatRequest(input.model_id, input.prompt, input.system_prompt)
        IN  /\ sent.messages = chat.messages
            /\ "temperature" \in DOMAIN sent /\ sent.temperature = chat.temperature
            /\ "max_tokens" \in DOMAIN sent /\ sent.max_tokens = chat.max_tokens
            /\ wire.t = "reply" =>
                /\ result.value.response = wire.body.content
                /\ result.value.usage = Get(wire.body, "usage", EmptyDict)

\* the texts of the first n blocks that bear a text, concatenated
RECURSIVE BlocksConcat(_, _)
BlocksConcat(blocks, n) ==
    IF n = 0 THEN ""
    ELSE BlocksConcat(blocks, n - 1)
            \o (IF "text" \in DOMAIN blocks[n] THEN blocks[n].text ELSE "")

\* C19: the Anthropic adapter's content is the in-order concatenation of the
\* text of every text-bearing block of the reply, and its usage is
\* {prompt_tokens = input count, completion_tokens = output count,
\* total_tokens = their sum}, all three 0 when the reply carries no counts.
C19_AnthropicResult ==
    (CallMade /\ CalledDescriptor.provider = "Anthropic" /\ wire.t = "reply") =>
        /\ result.value.status = "success"
        /\ result.value.response = BlocksConcat(wire.body.content, Len(wire.body.content))
        /\ result.value.usage =
             IF "usage" \in DOMAIN wire.body
             THEN [prompt_tokens |-> wire.body.usage.input_tokens,
                   completion_tokens |-> wire.body.usage.output_tokens,
                   total_tokens |-> wire.body.usage.input_tokens
                                        + wire.body.usage.output_tokens]
             ELSE [prompt_tokens |-> 0, completion_tokens |-> 0, total_tokens |-> 0]

\* a reply of one text block with 3 input and 4 output tokens gave its text
\* and a total of 7
C19_Witness ==
    /\ op = "call_model"
    /\ input.model_info.provider = "Anthropic"
    /\ wire.t = "reply"
    /\ "usage" \in DOMAIN wire.body
    /\ wire.body.usage.output_tokens = 4
    /\ result.value.response = "Paris"
    /\ result.value.usage.total_tokens = 7

\* C20: the Google adapter sends as the single user text the system prompt,
\* a blank line and the prompt when a system prompt is supplied, and the
\* prompt alone otherwise; at the web boundary the prompts are trimmed, and a
\* system prompt that is absent, empty or whitespace-only is not supplied.
C20_GoogleTextSent ==
    /\ (op = "call_model" /\ input.model_info.provider = "Google" /\ sent # NoRequest) =>
            sent.text =
                IF input.system_prompt \notin {None, ""}
                THEN input.system_prompt \o "\n\n" \o input.prompt
                ELSE input.prompt
    /\ (/\ op = "get_model_response"
        /\ RouteCalls(env, input.data, listing)
        /\ RouteDescriptor(env, input.data, listing).provider = "Google") =>
            LET sp == Get(input.data, "system_prompt", Absent)
                supplied == sp # Absent /\ Strip(sp) # ""
            IN  sent.text =
                    IF supplied THEN Strip(sp) \o "\n\n" \o Strip(input.data.prompt)
                    ELSE Strip(input.data.prompt)

\* a request with a whitespace-only system prompt for a Gemini model had the
\* prompt alone sent
C20_Witness ==
    /\ op = "get_model_response"
    /\ "system_prompt" \in DOMAIN input.data
    /\ input.data.system_prompt = "  "
    /\ sent # NoRequest
    /\ sent.api = "generate_content"
    /\ sent.text = "hi"

\* C21: for every provider, a provider built with a dummy key and the static
\* configuration table returns from get_models a non-empty mapping in which
\* every descriptor has the fields name, provider, endpoint and api_key_env
\* and names that provider.
C21_DummyKeyWithConfigTable ==
    (/\ op = "get_models"
     /\ input.api_key = "dummy_key"
     /\ input.available_models = Table(AVAILABLE_MODELS)) =>
        /\ result.kind = "return"
        /\ result.value # EmptyDict
        /\ \A m \in DOMAIN result.value :
              /\ {"name", "provider", "endpoint", "api_key_env"} \subseteq DOMAIN result.value[m]
              /\ result.value[m].provider = input.provider

\* C22: for every model id GET /api/models returned, a following POST
\* /api/get_model_response with that id and a non-empty prompt is answered
\* 200 with a body that has the keys model_name and response, whatever the
\* provider answers and whatever the catalog resolution of the second
\* request gives.
C22_OfferedModelIsAnswered ==
    (/\ op = "get_model_response"
     /\ offered # NoCatalog
     /\ input.data.model_id \in DOMAIN offered.value) =>
        /\ http = 200
        /\ "model_name" \in DOMAIN result.value
        /\ "response" \in DOMAIN result.value

\* the exception call_model's handlers meet for an answer that is no reply
RaisedClass ==
    IF wire.t = "fault" THEN wire.exc.cls
    ELSE SdkError(input.model_info.provider, wire).cls

\* the error kind the ordered rules give an exception of a class
ClaimedKind(cls, provider) ==
    IF cls = "HTTPError" THEN "api_error"
    ELSE IF cls = "Timeout" THEN "timeout"
    ELSE IF cls \in {"OpenAIError", "APIError", "APIConnectionError", "APIStatusError",
                     "RateLimitError", "APITimeoutError"}
    THEN "openai_api_error"
    ELSE IF provider = "Google" THEN "google_api_error"
    ELSE "unknown_error"

\* C23: call_model gives each adapter failure exactly one error kind, by the
\* first rule that matches: requests HTTPError 'api_error', requests Timeout
\* 'timeout', an OpenAI SDK error 'openai_api_error', anything else
\* 'google_api_error' for a Google descriptor and 'unknown_error' otherwise;
\* the envelope has the same keys, the descriptor's model_name and provider
\* and status 'error' whatever the kind.
C23_FirstMatchingKind ==
    (op = "call_model" /\ wire.t \in {"fault", "http", "timeout"}) =>
        /\ result.kind = "return"
        /\ result.value.error_type = ClaimedKind(RaisedClass, input.model_info.provider)
        /\ result.value.status = "error"
        /\ result.value.model_name = input.model_info.name
        /\ result.value.provider = input.model_info.provider
        /\ DOMAIN result.value =
              {"model_name", "provider", "response", "timestamp", "status", "error_type"}

\* a requests Timeout raised under a Google descriptor was classified by the
\* timeout rule, which comes before the catch-all
C23_Witness ==
    /\ op = "call_model"
    /\ wire.t = "fault"
    /\ wire.exc.cls = "Timeout"
    /\ input.model_info.provider = "Google"
    /\ result.value.error_type = "timeout"

\* C24: call_model of llmprovider.py turns every adapter exception into an
\* error envelope: a requests Timeout gives error_type 'timeout', any other
\* exception that is no HTTPError gives 'unknown_error' for a provider other
\* than Google, and no path returns without an envelope.
C24_ModuleEnvelopeAlways ==
    op = "module_call_model" =>
        /\ result.kind = "return"
        /\ "status" \in DOMAIN result.value
        /\ (wire.t = "fault" /\ input.model_info.provider # "Google") =>
                result.value.error_type =
                    IF wire.exc.cls = "HTTPError" THEN "api_error"
                    ELSE IF wire.exc.cls = "Timeout" THEN "timeout"
                    ELSE "unknown_error"
        /\ (wire.t = "timeout" /\ input.model_info.provider = "xAI") =>
                result.value.error_type = "timeout"

EndsInResponses(ep) ==
    \E k \in 0..Len(ep) :
        /\ Len(ep) >= k + 9
        /\ SubSeq(ep, Len(ep) - k + 1, Len(ep)) = Rep("/", k)
        /\ SubSeq(ep, Len(ep) - k - 8, Len(ep) - k) = "responses"

\* C26: OpenAIProvider.call_api uses the responses shape if and only if the
\* descriptor's endpoint, trailing slashes ignored, ends in 'responses', and
\* the legacy chat shape for every other endpoint.
C26_ShapeByEndpoint ==
    (CallMade /\ CalledDescriptor.provider = "OpenAI" /\ sent # NoRequest) =>
        /\ (sent.api = "responses.create") <=> EndsInResponses(CalledDescriptor.endpoint)
        /\ (sent.api = "chat.completions.create") <=>
                ~EndsInResponses(CalledDescriptor.endpoint)

\* an endpoint with a trailing slash was called in the responses shape
C26_Witness ==
    /\ op = "call_model"
    /\ input.model_info.endpoint = "https://api.openai.com/v1/responses/"
    /\ sent # NoRequest
    /\ sent.api = "responses.create"

\* C27: every descriptor of get_available_models() names a credential
\* variable that holds a key, so a 200 answer of POST
\* /api/get_model_response never carries error_type 'missing_api_key'.
C27_CatalogModelHasCredential ==
    /\ (op = "get_available_models" /\ result.kind = "return") =>
            \A m \in DOMAIN result.value : Truthy(GetEnv(env, result.value[m].api_key_env))
    /\ (op = "get_model_response" /\ http = 200) =>
            /\ Truthy(GetEnv(env, RouteDescriptor(env, input.data, listing).api_key_env))
            /\ "error_type" \in DOMAIN result.value =>
                    result.value.error_type # "missing_api_key"

\* a request for a Gemini model went out to the provider
C27_Witness ==
    /\ op = "get_model_response"
    /\ http = 200
    /\ result.value.provider = "Google"
    /\ netCalls = 1
    /\ result.value.status = "success"

\* C28: a request with a non-empty prompt and a model_id is answered 503 if
\* and only if get_available_providers() is empty.
C28_NoCredentialsIff503 ==
    (/\ op = "get_model_response"
     /\ Get(input.data, "prompt", "") # None
     /\ Strip(Get(input.data, "prompt", "")) # ""
     /\ Truthy(Get(input.data, "model_id", None))) =>
        ((http = 503) <=> (GetAvailableProviders(env) = <<>>))

\* C29: a handling of POST /api/get_model_response that ends in 400 or 503
\* invokes call_model not at all and sends nothing to a provider; call_model
\* is invoked at most once per request, and only when the catalog lookup
\* found the model_id.
C29_NoCallBeforeValidation ==
    op = "get_model_response" =>
        /\ http \in {400, 503} =>
            /\ result.calls = 0
            /\ netCalls = 0
            /\ constructed = 0
            /\ sent = NoRequest
        /\ result.calls <= 1
        /\ result.calls = 1 =>
            /\ RouteResolves(env, input.data)
            /\ input.data.model_id \in DOMAIN GetAvailableModels(env, listing).value

\* a request for a model outside the catalog was refused after the lookup,
\* without a call
C29_Witness ==
    /\ op = "get_model_response"
    /\ http = 400
    /\ result.value.error = "Invalid model selected."
    /\ listCalls >= 1
    /\ result.calls = 0
    /\ netCalls = 0

\* C30: for every JSON-object body, with prompt, system_prompt or model_id
\* absent or null, POST /api/get_model_response answers 200, 400 or 503.
C30_NoUnhandledException ==
    op = "get_model_response" => http \in {200, 400, 503}

====
